---- MODULE Spec2Model ----
(***************************************************************************)
(* FlagAttention (flag_attn/flash.py): the host entry points               *)
(* FlashAttention.forward / FlashAttention.backward and the four Triton    *)
(* kernels _fwd_kernel, _bwd_preprocess, _bwd_kv_kernel, _bwd_q_kernel.     *)
(*                                                                         *)
(* The kernel instances of one (batch, head) pair (off_z, off_h) are        *)
(* modelled; the pair is drawn in Init.  The feature axis has width one    *)
(* (offs_k = {0}), so tl.dot(q, k) is a product of two scalars.            *)
(*                                                                         *)
(* _fwd_kernel reads K and V through k_ptrs and v_ptrs, which are modelled  *)
(* as element offsets into the storage of K and V.  Every other pointer of *)
(* the four kernels is built from the strides of the tensor it points      *)
(* into, so its lane for row r addresses row r of that tensor, and the     *)
(* model uses the row index directly.                                      *)
(*                                                                         *)
(* float32 accumulators are modelled by exact fixed point numbers with     *)
(* FracBits fractional bits; exp2 is taken with qk_scale = 1.  -inf, NaN   *)
(* and the undefined result of a masked-off load are explicit values.      *)
(***************************************************************************)
EXTENDS Integers, Sequences, FiniteSets, TLC

\* ------------------------------------------------------------------ bounds
MaxM == 5
MaxN == 6
NIMaxN == 3

\* tile sizes the kernels are instantiated with (tl.constexpr BLOCK_M, BLOCK_N)
BlockMs == {2, 4}
BlockNs == {2, 4}
\* heads and batches of the call (q.shape[1], q.shape[0])
Heads == 0 .. 1
Batches == {0}
\* feature widths offered to forward()
Dims == {16, 24}
\* device indices, and the compute capabilities a device may report
Devices == 0 .. 1
Capabilities == {<<8, 0>>, <<8, 6>>, <<7, 5>>, <<9, 0>>}
\* finite element values of K and V, and of Q
Vals == {0, 1}
QVals == {1}

\* ------------------------------------------------------------ float values
Fin(x) == <<"fin", x>>
NINF == <<"ninf", 0>>
NAN == <<"nan", 0>>
UNDEF == <<"undef", 0>>
IsFin(v) == v[1] = "fin"

RECURSIVE Pow2(_)
Pow2(e) == IF e <= 0 THEN 1 ELSE 2 * Pow2(e - 1)

\* logits are products of one Q and one K element
Logits == {x * y : x \in QVals, y \in Vals}
MinLogit == CHOOSE x \in Logits : \A y \in Logits : x <= y
MaxLogit == CHOOSE x \in Logits : \A y \in Logits : x >= y
FracBits == MaxLogit - MinLogit
One == Pow2(FracBits)

\* tl.maximum on values that are finite or -inf
Maximum(a, b) ==
  IF a = NINF THEN b
  ELSE IF b = NINF THEN a
  ELSE IF a[2] >= b[2] THEN a ELSE b

\* a - b in IEEE arithmetic, for finite or -inf operands
Sub(a, b) ==
  IF a = NAN \/ b = NAN THEN NAN
  ELSE IF a = NINF /\ b = NINF THEN NAN
  ELSE IF a = NINF THEN NINF
  ELSE Fin(a[2] - b[2])

\* tl.math.exp2 of a value <= 0, as a fixed point number
Exp2(x) ==
  IF x = NAN THEN NAN
  ELSE IF x = NINF THEN Fin(0)
  ELSE Fin(Pow2(FracBits + x[2]))

\* fixed point a * b and a + b, NaN propagating
FxMul(a, b) ==
  IF a = NAN \/ b = NAN THEN NAN ELSE Fin((a[2] * b[2]) \div One)
FxAdd(a, b) ==
  IF a = NAN \/ b = NAN THEN NAN ELSE Fin(a[2] + b[2])
\* fixed point a times an integer element of V
FxScale(a, v) ==
  IF a = NAN THEN NAN ELSE Fin(a[2] * v)

RECURSIVE FxSum(_, _)
\* tl.sum / the reduction of tl.dot over lanes 0 .. k-1 of f
FxSum(f, k) == IF k = 0 THEN Fin(0) ELSE FxAdd(FxSum(f, k - 1), f[k - 1])

RECURSIVE MaxOver(_, _)
\* tl.max(s, 1) over lanes 0 .. k-1 of f
MaxOver(f, k) == IF k = 0 THEN NINF ELSE Maximum(MaxOver(f, k - 1), f[k - 1])

Cdiv(a, b) == (a + b - 1) \div b

\* --------------------------------------------------------------- variables
VARIABLES
  M, N, causal, Dq, Dk, Dv,   \* shapes and flag of the call
  Q, K, V,                    \* input elements; K and V per run (1, 2)
  stride_k, stride_v,         \* k.stride(), v.stride()
  off_z, off_h,               \* program_id(2), program_id(1) of the instances
  capability,                 \* torch.cuda.get_device_capability(device_index)
  device_index,               \* q.device.index
  current_device,             \* the process-wide current CUDA device
  entry_device,               \* the device that was current when the call began
  fwd_tune, bwd_tune,         \* the tuning locals forward / backward have bound
  pc,                         \* position of the host program
  stream,                     \* kernels launched on the CUDA stream, in order
  fwd_cfg, bwd_cfg,           \* tile sizes chosen by forward / backward
  alloc, ctx_saved,           \* tensors allocated; ctx.save_for_backward done
  fwd, O, L,                  \* _fwd_kernel instances, stored O and L per run
  pre, kv, bq,                \* backward kernel instances
  stores,                     \* per tensor and row: the instances that stored it
  oob,                        \* unmasked accesses outside a tensor
  loads,                      \* per kernel: the tensors it has loaded from
  attn,                       \* per stored O row: the keys summed into it
  dkv_from, dq_from,          \* per stored dK/dV (dQ) row: the terms summed
  delta_read                  \* some KV/Q instance has loaded Delta

inputVars == <<M, N, causal, Dq, Dk, Dv, Q, K, V,
               stride_k, stride_v, off_z, off_h, capability, device_index>>
hostVars == <<pc, stream, fwd_cfg, bwd_cfg, alloc, ctx_saved,
              current_device, entry_device, fwd_tune, bwd_tune>>
fwdVars == <<fwd, O, L, attn>>
bwdVars == <<pre, kv, bq, dkv_from, dq_from, delta_read>>
logVars == <<stores, oob, loads>>
vars == <<inputVars, hostVars, fwdVars, bwdVars, logVars>>

P_SEQ == N - M

Tensors == {"Q", "K", "V", "O", "L", "dO", "Delta", "dK", "dV", "dQ"}
\* number of rows of each tensor
Rows(t) == IF t \in {"K", "V", "dK", "dV"} THEN N ELSE M

\* the accesses among `rows` of tensor t that fall outside it
Outside(kernel, t, op, rows) ==
  {[kernel |-> kernel, tensor |-> t, op |-> op, row |-> r] :
     r \in {x \in rows : x >= Rows(t)}}

\* record a store by instance `who` to the in-range rows among `rows`
Stored(st, t, rows, who) ==
  [st EXCEPT ![t] = [r \in DOMAIN st[t] |->
     IF r \in rows THEN Append(st[t][r], who) ELSE st[t][r]]]

\* record that `kernel` has loaded from the tensors ts
Loaded(kernel, ts) ==
  loads \cup {[kernel |-> kernel, tensor |-> t] : t \in ts}

NoStores == [t \in {"O", "L", "Delta", "dK", "dV", "dQ"} |->
               [r \in 0 .. Rows(t) - 1 |-> <<>>]]

\* ------------------------------------------------------------------- Init
\* strides of a (batch, head, row, feature) tensor with `rows` rows, in
\* elements: contiguous as (B, H, T, D), or a (B, T, H, D) tensor transposed
Layout(name, rows) ==
  LET nh == Cardinality(Heads)
  IN IF name = "BHTD"
     THEN [z |-> nh * rows, h |-> rows, n |-> 1, k |-> 1]
     ELSE [z |-> rows * nh, h |-> 1, n |-> nh, k |-> 1]

\* the offset of element (z, h, n, feature 0) under strides st
OffsetOf(st, z, h, n) == z * st.z + h * st.h + n * st.n

\* the element of K or V stored at offset `off` under strides st:
\* <<head, row>> of batch off_z, or "outside" if the offset addresses none
\* (the offset is split by the larger of the head and row strides first)
ElemAt(st, off) ==
  LET rem == off - off_z * st.z
      h == IF st.h >= st.n THEN rem \div st.h ELSE (rem % st.n) \div st.h
      n == IF st.h >= st.n THEN (rem % st.h) \div st.n ELSE rem \div st.n
  IN IF rem >= 0 /\ h \in Heads /\ n \in 0 .. N - 1
          /\ OffsetOf(st, 0, h, n) = rem
     THEN <<h, n>> ELSE "outside"

\* the state before forward() is called
Start ==
  /\ pc = "init"
  /\ stream = <<>>
  /\ fwd_cfg = [BLOCK_M |-> 0, BLOCK_N |-> 0]
  /\ bwd_cfg = [BLOCK_M |-> 0, BLOCK_N |-> 0]
  /\ alloc = {}
  /\ ctx_saved = FALSE
  /\ entry_device = current_device
  /\ fwd_tune = <<>> /\ bwd_tune = <<>>
  /\ fwd = <<>>
  /\ O = [r \in 1 .. 2 |-> [m \in 0 .. M - 1 |-> UNDEF]]
  /\ L = [r \in 1 .. 2 |-> [m \in 0 .. M - 1 |-> UNDEF]]
  /\ attn = [m \in 0 .. M - 1 |-> <<>>]
  /\ pre = <<>> /\ kv = <<>> /\ bq = <<>>
  /\ dkv_from = [n \in 0 .. N - 1 |-> <<>>]
  /\ dq_from = [m \in 0 .. M - 1 |-> <<>>]
  /\ delta_read = FALSE
  /\ stores = NoStores
  /\ oob = {}
  /\ loads = {}

\* any shapes and widths; one pattern of element values, the same in both
\* runs
Shapes ==
  /\ M \in 1 .. MaxM
  /\ N \in 1 .. MaxN
  /\ causal \in BOOLEAN
  /\ Dq \in Dims /\ Dk \in Dims /\ Dv \in Dims
  /\ Q = [m \in 0 .. M - 1 |-> CHOOSE x \in QVals : TRUE]
  /\ K = [r \in 1 .. 2 |-> [h \in Heads |-> [n \in 0 .. N - 1 |-> (n + h) % 2]]]
  /\ V = [r \in 1 .. 2 |-> [h \in Heads |-> [n \in 0 .. N - 1 |-> (n + h + 1) % 2]]]
  /\ off_z \in Batches

\* a call on tensors of the current device, an A100
OneDevice ==
  /\ capability = <<8, 0>>
  /\ device_index = CHOOSE d \in Devices : TRUE
  /\ current_device = device_index

\* forward and backward on K and V that are both contiguous
Init ==
  /\ Shapes
  /\ OneDevice
  /\ off_h \in Heads
  /\ stride_k = Layout("BHTD", N)
  /\ stride_v = Layout("BHTD", N)
  /\ Start

\* forward on K and V of either layout, each chosen on its own
InitFwd ==
  /\ Shapes
  /\ OneDevice
  /\ off_h \in Heads
  /\ stride_k \in {Layout(l, N) : l \in {"BHTD", "BTHD"}}
  /\ stride_v \in {Layout(l, N) : l \in {"BHTD", "BTHD"}}
  /\ Start

\* ------------------------------------------------------- FlashAttention.forward
\* only the first assertion
DimsOK_EqualOnly == Dq = Dk /\ Dk = Dv

\* the two assertions on the feature widths
DimsOK == Dq = Dk /\ Dk = Dv /\ Dk \in {16, 32, 64, 128}

\* BLOCK_M, BLOCK_N, num_stages, num_warps as one dictionary of locals
Tuned(bm, bn, ns, nw) ==
  [BLOCK_M |-> bm, BLOCK_N |-> bn, num_stages |-> ns, num_warps |-> nw]

\* the tuning locals bound by forward() on a device of capability cap
FwdTune(cap, c, dk, m) ==
  IF cap = <<8, 0>>
  THEN IF ~c
       THEN IF dk <= 64 THEN Tuned(128, 64, 3, 4)
            ELSE IF m <= 1024 THEN Tuned(128, 32, 3, 4)
            ELSE Tuned(128, 128, 3, 8)
       ELSE IF dk <= 64 THEN Tuned(128, 64, 4, 4)
            ELSE IF m <= 1024 THEN Tuned(128, 32, 2, 4)
            ELSE Tuned(128, 128, 3, 8)
  ELSE IF ~c
       THEN IF dk <= 64 THEN Tuned(128, 64, 3, 4) ELSE Tuned(128, 32, 2, 4)
       ELSE IF dk <= 64 THEN Tuned(64, 64, 3, 4) ELSE Tuned(128, 32, 2, 4)

\* state of a launched _fwd_kernel instance before it runs
FwdFresh ==
  [pc |-> "start", start_n |-> 0, rows |-> <<>>,
   k_ptrs |-> <<>>, v_ptrs |-> <<>>]

\* forward(): assertions, tile sizes, grid, allocation of o and L, launch,
\* ctx.save_for_backward, return.
Forward ==
  /\ pc = "init"
  /\ entry_device' = current_device
  /\ IF ~DimsOK
     THEN /\ pc' = "rejected"
          /\ current_device' = device_index
          /\ UNCHANGED <<stream, fwd_cfg, alloc, ctx_saved, fwd, fwd_tune>>
     ELSE \E bm \in BlockMs, bn \in BlockNs :
          /\ fwd_tune' = FwdTune(capability, causal, Dk, M)
          /\ fwd_cfg' = [BLOCK_M |-> bm, BLOCK_N |-> bn]
          /\ alloc' = alloc \cup {"o", "L"}
          /\ stream' = Append(stream, "fwd")
          /\ fwd' = [i \in 0 .. Cdiv(M, bm) - 1 |-> FwdFresh]
          /\ ctx_saved' = TRUE
          /\ current_device' = current_device
          /\ pc' = "fwd_returned"
  /\ UNCHANGED <<inputVars, bwd_cfg, bwd_tune, O, L, attn, bwdVars, logVars>>

\* ------------------------------------------------------------- _fwd_kernel
FwdOffsM(start_m) ==
  {start_m * fwd_cfg.BLOCK_M + r : r \in 0 .. fwd_cfg.BLOCK_M - 1}

\* the rows q is loaded for and O, L are stored for (mask_m; None = all)
FwdMaskM(start_m) ==
  IF M % fwd_cfg.BLOCK_M # 0
       /\ start_m * fwd_cfg.BLOCK_M + fwd_cfg.BLOCK_M > M
  THEN {m \in FwdOffsM(start_m) : m < M}
  ELSE FwdOffsM(start_m)

\* end of the key loop
FwdHi(start_m) ==
  IF causal THEN P_SEQ + (start_m + 1) * fwd_cfg.BLOCK_M ELSE N

FwdOffsN(start_n) == {start_n + c : c \in 0 .. fwd_cfg.BLOCK_N - 1}

\* mask_n at key n of the tile at start_n (None = true everywhere)
FwdMaskNAt(n, start_n) ==
  IF N % fwd_cfg.BLOCK_N # 0 /\ start_n + fwd_cfg.BLOCK_N > N
  THEN n < N
  ELSE TRUE

\* the key rows k and v are loaded for
FwdMaskN(start_n) == {n \in FwdOffsN(start_n) : FwdMaskNAt(n, start_n)}

\* the diagonal masked as well
CausalMask_Strict(m, n) == P_SEQ + m > n

\* causal_mask at (query row m, key n)
CausalMask(m, n) == P_SEQ + m >= n

\* the lanes of s that are not forced to -inf
FwdLive(m, n, start_n) ==
  /\ FwdMaskNAt(n, start_n)
  /\ causal => CausalMask(m, n)

\* k_ptrs before the loop, per lane c of the key tile
FwdKPtrsInit ==
  [c \in 0 .. fwd_cfg.BLOCK_N - 1 |->
     off_z * stride_k.z + off_h * stride_k.h + 0 * stride_v.k + c * stride_v.n]

\* v_ptrs before the loop, per lane c of the key tile
FwdVPtrsInit ==
  [c \in 0 .. fwd_cfg.BLOCK_N - 1 |->
     off_z * stride_v.z + off_h * stride_v.h + c * stride_k.n + 0 * stride_k.k]

\* the element a load from offset `off` returns in run r: the element of T
\* stored there, or g where the offset lies outside T's storage
LoadAt(T, st, off, g) ==
  LET e == ElemAt(st, off)
  IN IF e = "outside" THEN g ELSE T[e[1]][e[2]]

\* the accumulators of one query row before the loop
FwdRowInit ==
  [m_i |-> [r \in 1 .. 2 |-> NINF],
   l_i |-> [r \in 1 .. 2 |-> Fin(0)],
   acc |-> [r \in 1 .. 2 |-> Fin(0)],
   keys |-> <<>>]

\* what the live lanes of tile start_n add to row m, lane by lane: the key
\* index n of the lane and the elements of K and V its pointers address
RECURSIVE LiveKeys(_, _, _, _)
LiveKeys(inst, m, start_n, c) ==
  IF c = 0 THEN <<>>
  ELSE LET rest == LiveKeys(inst, m, start_n, c - 1)
       IN IF FwdLive(m, start_n + c - 1, start_n)
          THEN Append(rest, [n |-> start_n + c - 1,
                             k |-> ElemAt(stride_k, inst.k_ptrs[c - 1]),
                             v |-> ElemAt(stride_v, inst.v_ptrs[c - 1])])
          ELSE rest

\* the update of one row's accumulators from the logits s, the values v of
\* the tile and the new running maximum
FwdRowUpdate(row, r, s, v, m_i_new) ==
  LET BN == fwd_cfg.BLOCK_N
      alpha == Exp2(Sub(row.m_i[r], m_i_new))
      p == [c \in 0 .. BN - 1 |-> Exp2(Sub(s[c], m_i_new))]
      pv == [c \in 0 .. BN - 1 |-> FxScale(p[c], v[c])]
  IN [m_i |-> m_i_new,
      l_i |-> FxAdd(FxMul(row.l_i[r], alpha), FxSum(p, BN)),
      acc |-> FxAdd(FxMul(row.acc[r], alpha), FxSum(pv, BN))]

\* one loop iteration on one query row, for run r
FwdRowStep(inst, row, m, r, gk, gv) ==
  LET BN == fwd_cfg.BLOCK_N
      start_n == inst.start_n
      s == [c \in 0 .. BN - 1 |->
              IF FwdLive(m, start_n + c, start_n)
              THEN Fin(Q[m] * LoadAt(K[r], stride_k, inst.k_ptrs[c], gk))
              ELSE NINF]
      v == [c \in 0 .. BN - 1 |->
              IF FwdMaskNAt(start_n + c, start_n)
              THEN LoadAt(V[r], stride_v, inst.v_ptrs[c], gv) ELSE gv]
  IN FwdRowUpdate(row, r, s, v, Maximum(row.m_i[r], MaxOver(s, BN)))

FwdRowIter(inst, row, m, gk, gv) ==
  LET one == [r \in 1 .. 2 |-> FwdRowStep(inst, row, m, r, gk, gv)]
  IN [m_i |-> [r \in 1 .. 2 |-> one[r].m_i],
      l_i |-> [r \in 1 .. 2 |-> one[r].l_i],
      acc |-> [r \in 1 .. 2 |-> one[r].acc],
      keys |-> row.keys \o LiveKeys(inst, m, inst.start_n, fwd_cfg.BLOCK_N)]

\* what the load of a tile through `ptrs` may return in a lane that is
\* masked off or points outside the storage
Garbage(st, ptrs, start_n) ==
  IF \E c \in DOMAIN ptrs :
       ~FwdMaskNAt(start_n + c, start_n) \/ ElemAt(st, ptrs[c]) = "outside"
  THEN Vals ELSE {CHOOSE x \in Vals : TRUE}

\* the unmasked lanes of a tile whose pointer addresses no element of t
OutsideStorage(t, st, ptrs, start_n) ==
  {[kernel |-> "fwd", tensor |-> t, op |-> "load", row |-> start_n + c] :
     c \in {x \in DOMAIN ptrs : FwdMaskNAt(start_n + x, start_n)
                                 /\ ElemAt(st, ptrs[x]) = "outside"}}

\* acc * (1.0 / l_i)
Normalize(acc, l) ==
  IF acc = NAN \/ l = NAN \/ l[2] = 0 THEN NAN ELSE <<"frac", acc[2], l[2]>>

\* m_i * sm_scale + log(l_i), kept as 2^L in fixed point
LogNormalizer(m, l) ==
  IF l = NAN THEN NAN
  ELSE IF l[2] = 0 \/ m = NINF THEN NINF
  ELSE Fin(l[2] * Pow2(m[2] - MinLogit))

Running(k) == stream # <<>> /\ Head(stream) = k

\* grid ids, pointers, mask_m, load of q, zeroed accumulators
FwdBegin(i) ==
  /\ Running("fwd")
  /\ fwd[i].pc = "start"
  /\ fwd' = [fwd EXCEPT ![i] =
       [pc |-> "loop", start_n |-> 0,
        rows |-> [m \in FwdMaskM(i) |-> FwdRowInit],
        k_ptrs |-> FwdKPtrsInit, v_ptrs |-> FwdVPtrsInit]]
  /\ oob' = oob \cup Outside("fwd", "Q", "load", FwdMaskM(i))
  /\ loads' = Loaded("fwd", {"Q"})
  /\ UNCHANGED <<inputVars, hostVars, O, L, attn, bwdVars, stores>>

\* one iteration of the loop over key tiles
FwdIter(i) ==
  /\ Running("fwd")
  /\ fwd[i].pc = "loop"
  /\ fwd[i].start_n < FwdHi(i)
  /\ \E gk \in Garbage(stride_k, fwd[i].k_ptrs, fwd[i].start_n),
        gv \in Garbage(stride_v, fwd[i].v_ptrs, fwd[i].start_n) :
       fwd' = [fwd EXCEPT ![i] =
         [pc |-> "loop", start_n |-> fwd[i].start_n + fwd_cfg.BLOCK_N,
          rows |-> [m \in DOMAIN fwd[i].rows |->
             FwdRowIter(fwd[i], fwd[i].rows[m], m, gk, gv)],
          k_ptrs |-> [c \in DOMAIN fwd[i].k_ptrs |->
             fwd[i].k_ptrs[c] + fwd_cfg.BLOCK_N * stride_k.n],
          v_ptrs |-> [c \in DOMAIN fwd[i].v_ptrs |->
             fwd[i].v_ptrs[c] + fwd_cfg.BLOCK_N * stride_v.n]]]
  /\ oob' = oob \cup Outside("fwd", "K", "load", FwdMaskN(fwd[i].start_n))
                \cup Outside("fwd", "V", "load", FwdMaskN(fwd[i].start_n))
                \cup OutsideStorage("K", stride_k, fwd[i].k_ptrs, fwd[i].start_n)
                \cup OutsideStorage("V", stride_v, fwd[i].v_ptrs, fwd[i].start_n)
  /\ loads' = Loaded("fwd", {"K", "V"})
  /\ UNCHANGED <<inputVars, hostVars, O, L, attn, bwdVars, stores>>

\* write back l and o
FwdStore(i) ==
  /\ Running("fwd")
  /\ fwd[i].pc = "loop"
  /\ fwd[i].start_n >= FwdHi(i)
  /\ LET rows == fwd[i].rows
         hit == DOMAIN rows \cap (0 .. M - 1)
     IN /\ O' = [r \in 1 .. 2 |-> [m \in 0 .. M - 1 |->
                   IF m \in hit THEN Normalize(rows[m].acc[r], rows[m].l_i[r])
                   ELSE O[r][m]]]
        /\ L' = [r \in 1 .. 2 |-> [m \in 0 .. M - 1 |->
                   IF m \in hit
                   THEN LogNormalizer(rows[m].m_i[r], rows[m].l_i[r])
                   ELSE L[r][m]]]
        /\ attn' = [m \in 0 .. M - 1 |->
                   IF m \in hit THEN rows[m].keys ELSE attn[m]]
        /\ stores' = Stored(Stored(stores, "O", DOMAIN rows, <<"fwd", i>>),
                            "L", DOMAIN rows, <<"fwd", i>>)
        /\ oob' = oob \cup Outside("fwd", "O", "store", DOMAIN rows)
                      \cup Outside("fwd", "L", "store", DOMAIN rows)
  /\ fwd' = [fwd EXCEPT ![i].pc = "done"]
  /\ UNCHANGED <<inputVars, hostVars, bwdVars, loads>>

\* ------------------------------------------------------ FlashAttention.backward
\* the KV kernel launched ahead of the preprocess kernel
LaunchOrder_KvFirst == <<"kv", "pre", "bq">>

\* the order in which backward() launches its kernels on the stream
LaunchOrder == <<"pre", "kv", "bq">>

\* the else branch left out: no default for other devices
BwdTune_NoDefault(cap, c, d) ==
  IF cap = <<8, 0>>
  THEN IF ~c
       THEN Tuned(IF d <= 64 THEN 128 ELSE 64, 64, 2, 4)
       ELSE Tuned(64, 64, IF d <= 64 THEN 3 ELSE 2, 4)
  ELSE IF cap = <<8, 6>>
  THEN IF ~c
       THEN IF d <= 64 THEN Tuned(64, 64, 2, 4) ELSE Tuned(64, 64, 2, 8)
       ELSE IF d <= 64 THEN Tuned(64, 64, 2, 4) ELSE Tuned(32, 32, 2, 4)
  ELSE <<>>

\* the tuning locals bound by backward() on a device of capability cap
BwdTune(cap, c, d) ==
  IF cap = <<8, 0>>
  THEN IF ~c
       THEN Tuned(IF d <= 64 THEN 128 ELSE 64, 64, 2, 4)
       ELSE Tuned(64, 64, IF d <= 64 THEN 3 ELSE 2, 4)
  ELSE IF cap = <<8, 6>>
  THEN IF ~c
       THEN IF d <= 64 THEN Tuned(64, 64, 2, 4) ELSE Tuned(64, 64, 2, 8)
       ELSE IF d <= 64 THEN Tuned(64, 64, 2, 4) ELSE Tuned(32, 32, 2, 4)
  ELSE Tuned(32, 32, 2, 4)

PreFresh == [pc |-> "start"]
KvFresh == [pc |-> "start", start_m |-> 0, dk |-> <<>>, dv |-> <<>>]
BqFresh == [pc |-> "start", start_n |-> 0, dq |-> <<>>]

\* backward(): tile sizes, then delta / dk, dv / dq are allocated and the
\* three kernels launched, each on its own grid
Backward ==
  /\ pc = "fwd_returned"
  /\ \E bm \in BlockMs, bn \in BlockNs :
       /\ bwd_cfg' = [BLOCK_M |-> bm, BLOCK_N |-> bn]
       /\ pre' = [i \in 0 .. Cdiv(M, bm) - 1 |-> PreFresh]
       /\ kv' = [j \in 0 .. Cdiv(N, bn) - 1 |-> KvFresh]
       /\ bq' = [i \in 0 .. Cdiv(M, bm) - 1 |-> BqFresh]
  /\ bwd_tune' = BwdTune(capability, causal, Dq)
  /\ alloc' = alloc \cup {"delta", "dk", "dv", "dq"}
  /\ stream' = stream \o LaunchOrder
  /\ entry_device' = current_device
  /\ current_device' = current_device
  /\ pc' = "bwd_returned"
  /\ UNCHANGED <<inputVars, fwd_cfg, fwd_tune, ctx_saved, fwdVars,
                 dkv_from, dq_from, delta_read, logVars>>

\* --------------------------------------------------------- _bwd_preprocess
PreOffsM(i) ==
  {i * bwd_cfg.BLOCK_M + r : r \in 0 .. bwd_cfg.BLOCK_M - 1}

PreMaskM(i) ==
  IF M % bwd_cfg.BLOCK_M # 0 /\ i * bwd_cfg.BLOCK_M + bwd_cfg.BLOCK_M > M
  THEN {m \in PreOffsM(i) : m < M}
  ELSE PreOffsM(i)

\* load o and do, reduce, store delta
Preprocess(i) ==
  /\ Running("pre")
  /\ pre[i].pc = "start"
  /\ pre' = [pre EXCEPT ![i].pc = "done"]
  /\ stores' = Stored(stores, "Delta", PreMaskM(i), <<"pre", i>>)
  /\ oob' = oob \cup Outside("pre", "O", "load", PreMaskM(i))
                \cup Outside("pre", "dO", "load", PreMaskM(i))
                \cup Outside("pre", "Delta", "store", PreMaskM(i))
  /\ loads' = Loaded("pre", {"O", "dO"})
  /\ UNCHANGED <<inputVars, hostVars, fwdVars, kv, bq,
                 dkv_from, dq_from, delta_read>>

\* ---------------------------------------------------------- _bwd_kv_kernel
Max0(x) == IF x > 0 THEN x ELSE 0

\* the lower bound without the prefix
KvLo_NoPrefix(start_n) ==
  IF causal
  THEN ((start_n * bwd_cfg.BLOCK_N) \div bwd_cfg.BLOCK_M) * bwd_cfg.BLOCK_M
  ELSE 0

\* the lower bound rounded up to a tile boundary
KvLo_RoundUp(start_n) ==
  IF causal
  THEN Cdiv(Max0(start_n * bwd_cfg.BLOCK_N - P_SEQ), bwd_cfg.BLOCK_M)
         * bwd_cfg.BLOCK_M
  ELSE 0

\* first query row of the sweep
KvLo(start_n) ==
  IF causal
  THEN (Max0(start_n * bwd_cfg.BLOCK_N - P_SEQ) \div bwd_cfg.BLOCK_M)
         * bwd_cfg.BLOCK_M
  ELSE 0

KvOffsN(start_n) ==
  {start_n * bwd_cfg.BLOCK_N + c : c \in 0 .. bwd_cfg.BLOCK_N - 1}

\* the key rows k, v are loaded for and dk, dv stored for (mask_n)
KvMaskN(start_n) ==
  IF N % bwd_cfg.BLOCK_N # 0
       /\ start_n * bwd_cfg.BLOCK_N + bwd_cfg.BLOCK_N > N
  THEN {n \in KvOffsN(start_n) : n < N}
  ELSE KvOffsN(start_n)

KvOffsM(start_m) == {start_m + r : r \in 0 .. bwd_cfg.BLOCK_M - 1}

\* the query rows q, l, do, delta are loaded for in the tile at start_m
KvMaskM(start_m) ==
  IF M % bwd_cfg.BLOCK_M # 0 /\ start_m + bwd_cfg.BLOCK_M > M
  THEN {m \in KvOffsM(start_m) : m < M}
  ELSE KvOffsM(start_m)

\* valid_mask at (m, n): the row mask on the partial last query tile,
\* the column mask elsewhere
KvValid(start_n, start_m, m, n) ==
  IF M % bwd_cfg.BLOCK_M # 0 /\ start_m + bwd_cfg.BLOCK_M > M
  THEN m < M
  ELSE n \in KvMaskN(start_n)

\* the lanes of p that are not zeroed
KvPLive(start_n, start_m, m, n) ==
  /\ KvValid(start_n, start_m, m, n)
  /\ causal => CausalMask(m, n)

\* the lanes of ds = p * (dp - delta) that are not zeroed
KvDsLive(start_n, start_m, m, n) ==
  /\ KvPLive(start_n, start_m, m, n)
  /\ KvValid(start_n, start_m, m, n)
  /\ causal => CausalMask(m, n)

\* the query rows of tile start_m whose lane of `which` ("p" or "ds") at
\* key n is not zeroed, ascending
RECURSIVE KvRows(_, _, _, _, _)
KvRows(which, start_n, start_m, n, r) ==
  IF r = 0 THEN <<>>
  ELSE LET rest == KvRows(which, start_n, start_m, n, r - 1)
           m == start_m + r - 1
       IN IF (IF which = "ds" THEN KvDsLive(start_n, start_m, m, n)
                              ELSE KvPLive(start_n, start_m, m, n))
          THEN Append(rest, m) ELSE rest

\* lo, pointers, mask_n, load of k and v, zeroed dk and dv
KvBegin(j) ==
  /\ Running("kv")
  /\ kv[j].pc = "start"
  /\ kv' = [kv EXCEPT ![j] =
       [pc |-> "loop", start_m |-> KvLo(j),
        dk |-> [n \in KvOffsN(j) |-> <<>>],
        dv |-> [n \in KvOffsN(j) |-> <<>>]]]
  /\ oob' = oob \cup Outside("kv", "V", "load", KvMaskN(j))
                \cup Outside("kv", "K", "load", KvMaskN(j))
  /\ loads' = Loaded("kv", {"K", "V"})
  /\ UNCHANGED <<inputVars, hostVars, fwdVars, pre, bq,
                 dkv_from, dq_from, delta_read, stores>>

\* one iteration of the loop over query tiles
KvIter(j) ==
  /\ Running("kv")
  /\ kv[j].pc = "loop"
  /\ kv[j].start_m < M
  /\ LET sm == kv[j].start_m
     IN /\ kv' = [kv EXCEPT ![j] =
             [pc |-> "loop", start_m |-> sm + bwd_cfg.BLOCK_M,
              dk |-> [n \in KvOffsN(j) |-> kv[j].dk[n] \o
                        KvRows("ds", j, sm, n, bwd_cfg.BLOCK_M)],
              dv |-> [n \in KvOffsN(j) |-> kv[j].dv[n] \o
                        KvRows("p", j, sm, n, bwd_cfg.BLOCK_M)]]]
        /\ oob' = oob \cup Outside("kv", "Q", "load", KvMaskM(sm))
                      \cup Outside("kv", "L", "load", KvMaskM(sm))
                      \cup Outside("kv", "dO", "load", KvMaskM(sm))
                      \cup Outside("kv", "Delta", "load", KvMaskM(sm))
  /\ delta_read' = TRUE
  /\ loads' = Loaded("kv", {"Q", "L", "dO", "Delta"})
  /\ UNCHANGED <<inputVars, hostVars, fwdVars, pre, bq,
                 dkv_from, dq_from, stores>>

\* dk *= sm_scale; store dk and dv
KvStore(j) ==
  /\ Running("kv")
  /\ kv[j].pc = "loop"
  /\ kv[j].start_m >= M
  /\ kv' = [kv EXCEPT ![j].pc = "done"]
  /\ dkv_from' = [n \in 0 .. N - 1 |->
       IF n \in KvMaskN(j)
       THEN [dk |-> kv[j].dk[n], dv |-> kv[j].dv[n]] ELSE dkv_from[n]]
  /\ stores' = Stored(Stored(stores, "dK", KvMaskN(j), <<"kv", j>>),
                      "dV", KvMaskN(j), <<"kv", j>>)
  /\ oob' = oob \cup Outside("kv", "dK", "store", KvMaskN(j))
                \cup Outside("kv", "dV", "store", KvMaskN(j))
  /\ UNCHANGED <<inputVars, hostVars, fwdVars, pre, bq, dq_from, delta_read,
                 loads>>

\* ----------------------------------------------------------- _bwd_q_kernel
BqOffsM(start_m) ==
  {start_m * bwd_cfg.BLOCK_M + r : r \in 0 .. bwd_cfg.BLOCK_M - 1}

\* the rows q, do, delta, l are loaded for and dq is stored for (mask_m)
BqMaskM(start_m) ==
  IF M % bwd_cfg.BLOCK_M # 0
       /\ start_m * bwd_cfg.BLOCK_M + bwd_cfg.BLOCK_M > M
  THEN {m \in BqOffsM(start_m) : m < M % bwd_cfg.BLOCK_M}
  ELSE BqOffsM(start_m)

\* end of the key loop
BqHi(start_m) ==
  IF causal THEN P_SEQ + (start_m + 1) * bwd_cfg.BLOCK_M ELSE N

BqOffsN(start_n) == {start_n + c : c \in 0 .. bwd_cfg.BLOCK_N - 1}

\* the key rows k, v are loaded for (mask_n, which is also valid_mask)
BqMaskN(start_n) ==
  IF N % bwd_cfg.BLOCK_N # 0 /\ start_n + bwd_cfg.BLOCK_N > N
  THEN {n \in BqOffsN(start_n) : n < N % bwd_cfg.BLOCK_N}
  ELSE BqOffsN(start_n)

\* the lanes of ds that are not zeroed
BqDsLive(m, n, start_n) ==
  /\ n \in BqMaskN(start_n)
  /\ causal => CausalMask(m, n)

\* the keys of tile start_n whose ds lane is live for row m, ascending
RECURSIVE BqKeys(_, _, _)
BqKeys(m, start_n, c) ==
  IF c = 0 THEN <<>>
  ELSE LET rest == BqKeys(m, start_n, c - 1)
       IN IF BqDsLive(m, start_n + c - 1, start_n)
          THEN Append(rest, start_n + c - 1) ELSE rest

\* pointers, mask_m, load of q, do, delta, l, zeroed dq
BqBegin(i) ==
  /\ Running("bq")
  /\ bq[i].pc = "start"
  /\ bq' = [bq EXCEPT ![i] =
       [pc |-> "loop", start_n |-> 0,
        dq |-> [m \in BqMaskM(i) |-> <<>>]]]
  /\ oob' = oob \cup Outside("bq", "Q", "load", BqMaskM(i))
                \cup Outside("bq", "dO", "load", BqMaskM(i))
                \cup Outside("bq", "Delta", "load", BqMaskM(i))
                \cup Outside("bq", "L", "load", BqMaskM(i))
  /\ delta_read' = TRUE
  /\ loads' = Loaded("bq", {"Q", "dO", "Delta", "L"})
  /\ UNCHANGED <<inputVars, hostVars, fwdVars, pre, kv,
                 dkv_from, dq_from, stores>>

\* one iteration of the loop over key tiles
BqIter(i) ==
  /\ Running("bq")
  /\ bq[i].pc = "loop"
  /\ bq[i].start_n < BqHi(i)
  /\ LET sn == bq[i].start_n
     IN /\ bq' = [bq EXCEPT ![i] =
             [pc |-> "loop", start_n |-> sn + bwd_cfg.BLOCK_N,
              dq |-> [m \in DOMAIN bq[i].dq |-> bq[i].dq[m] \o
                        BqKeys(m, sn, bwd_cfg.BLOCK_N)]]]
        /\ oob' = oob \cup Outside("bq", "V", "load", BqMaskN(sn))
                      \cup Outside("bq", "K", "load", BqMaskN(sn))
  /\ loads' = Loaded("bq", {"K", "V"})
  /\ UNCHANGED <<inputVars, hostVars, fwdVars, pre, kv,
                 dkv_from, dq_from, delta_read, stores>>

\* dq *= sm_scale; store dq
BqStore(i) ==
  /\ Running("bq")
  /\ bq[i].pc = "loop"
  /\ bq[i].start_n >= BqHi(i)
  /\ bq' = [bq EXCEPT ![i].pc = "done"]
  /\ dq_from' = [m \in 0 .. M - 1 |->
       IF m \in DOMAIN bq[i].dq THEN bq[i].dq[m] ELSE dq_from[m]]
  /\ stores' = Stored(stores, "dQ", DOMAIN bq[i].dq, <<"bq", i>>)
  /\ oob' = oob \cup Outside("bq", "dQ", "store", DOMAIN bq[i].dq)
  /\ UNCHANGED <<inputVars, hostVars, fwdVars, pre, kv, dkv_from, delta_read,
                 loads>>


\* the instances of each kernel
Instances(k) ==
  IF k = "fwd" THEN fwd ELSE IF k = "pre" THEN pre
  ELSE IF k = "kv" THEN kv ELSE bq

\* the stream starts the next kernel once every instance of the current one
\* has finished
Retire ==
  /\ stream # <<>>
  /\ \A i \in DOMAIN Instances(Head(stream)) :
       Instances(Head(stream))[i].pc = "done"
  /\ stream' = Tail(stream)
  /\ UNCHANGED <<inputVars, pc, fwd_cfg, bwd_cfg, alloc, ctx_saved,
                 current_device, entry_device, fwd_tune, bwd_tune,
                 fwdVars, bwdVars, logVars>>

NextFwd ==
  \/ Forward
  \/ \E i \in DOMAIN fwd : FwdBegin(i)
  \/ \E i \in DOMAIN fwd : FwdIter(i)
  \/ \E i \in DOMAIN fwd : FwdStore(i)
  \/ Retire


\* ------------------------------------------------------------ whole program
Next ==
  \/ Forward
  \/ \E i \in DOMAIN fwd : FwdBegin(i)
  \/ \E i \in DOMAIN fwd : FwdIter(i)
  \/ \E i \in DOMAIN fwd : FwdStore(i)
  \/ Backward
  \/ \E i \in DOMAIN pre : Preprocess(i)
  \/ \E j \in DOMAIN kv : KvBegin(j)
  \/ \E j \in DOMAIN kv : KvIter(j)
  \/ \E j \in DOMAIN kv : KvStore(j)
  \/ \E i \in DOMAIN bq : BqBegin(i)
  \/ \E i \in DOMAIN bq : BqIter(i)
  \/ \E i \in DOMAIN bq : BqStore(i)
  \/ Retire

Spec == Init /\ [][Next]_vars

SpecFwd == InitFwd /\ [][NextFwd]_vars

\* forward on a causal call with a non-negative prefix, run twice in
\* lockstep: run 2 differs from run 1 in K and V at one key of one head
InitNI ==
  /\ N \in 1 .. NIMaxN
  /\ M \in 1 .. N
  /\ causal = TRUE
  /\ Dq = 16 /\ Dk = 16 /\ Dv = 16
  /\ Q \in [0 .. M - 1 -> QVals]
  /\ OneDevice
  /\ off_z \in Batches
  /\ off_h \in Heads
  /\ \E row \in [0 .. N - 1 -> Vals], j \in 0 .. N - 1, kj \in Vals, vj \in Vals :
       LET K1 == [h \in Heads |-> [n \in 0 .. N - 1 |->
                    IF h = off_h THEN row[n] ELSE (n + h) % 2]]
           V1 == [h \in Heads |-> [n \in 0 .. N - 1 |-> (n + h + 1) % 2]]
       IN /\ kj # K1[off_h][j] \/ vj # V1[off_h][j]
          /\ K = <<K1, [K1 EXCEPT ![off_h][j] = kj]>>
          /\ V = <<V1, [V1 EXCEPT ![off_h][j] = vj]>>
  /\ stride_k \in {Layout(l, N) : l \in {"BHTD", "BTHD"}}
  /\ stride_v \in {Layout(l, N) : l \in {"BHTD", "BTHD"}}
  /\ Start

SpecNI == InitNI /\ [][NextFwd]_vars

\* the host functions alone, on any device: feature widths and sequence
\* lengths on both sides of the thresholds of the tuning tables
HostDims == {16, 24, 32, 64, 128}
SeqLens == {1, 1024, 1025}

InitHost ==
  /\ M \in SeqLens
  /\ N = M
  /\ causal \in BOOLEAN
  /\ Dq \in HostDims /\ Dk \in HostDims /\ Dv = Dk
  /\ Q = [m \in 0 .. M - 1 |-> CHOOSE x \in QVals : TRUE]
  /\ K = [r \in 1 .. 2 |-> [h \in Heads |-> [n \in 0 .. N - 1 |-> (n + h) % 2]]]
  /\ V = [r \in 1 .. 2 |-> [h \in Heads |-> [n \in 0 .. N - 1 |-> (n + h + 1) % 2]]]
  /\ off_z \in Batches
  /\ off_h = CHOOSE h \in Heads : TRUE
  /\ stride_k = Layout("BHTD", N)
  /\ stride_v = Layout("BHTD", N)
  /\ capability \in Capabilities
  /\ device_index \in Devices
  /\ current_device \in Devices
  /\ Start

NextHost ==
  \/ Forward
  \/ Backward

SpecHost == InitHost /\ [][NextHost]_vars

\* ================================================================= claims
\* seq lists every element of S once and nothing else
ExactlyOnce(seq, S) ==
  /\ Len(seq) = Cardinality(S)
  /\ {seq[k] : k \in DOMAIN seq} = S

\* the keys query row m may attend to
Visible(m) == {n \in 0 .. N - 1 : ~causal \/ n <= P_SEQ + m}
\* what those keys add to a row of head off_h: key n with K[n] and V[n]
VisibleTerms(m) ==
  {[n |-> n, k |-> <<off_h, n>>, v |-> <<off_h, n>>] : n \in Visible(m)}
\* the query rows that may attend to key n
Seen(n) == {m \in 0 .. M - 1 : ~causal \/ n <= P_SEQ + m}

FwdComplete == fwd # <<>> /\ \A i \in DOMAIN fwd : fwd[i].pc = "done"
KvComplete == kv # <<>> /\ \A j \in DOMAIN kv : kv[j].pc = "done"
BqComplete == bq # <<>> /\ \A i \in DOMAIN bq : bq[i].pc = "done"

\* the keys at which the two runs differ
Perturbed ==
  {n \in 0 .. N - 1 :
     K[1][off_h][n] # K[2][off_h][n] \/ V[1][off_h][n] # V[2][off_h][n]}

\* equality of two stored outputs acc / l
SameO(a, b) ==
  IF a[1] = "frac" /\ b[1] = "frac" THEN a[2] * b[3] = b[2] * a[3] ELSE a = b

\* C1: forward, causal, P_SEQ >= 0: a stored row i of O and L is the same in
\* two runs that differ only in K[j], V[j] at keys j > P_SEQ + i.
C1_NoCausalLeak ==
  \A i \in 0 .. M - 1 :
    (stores["O"][i] # <<>> /\ \A j \in Perturbed : j > P_SEQ + i)
      => SameO(O[1][i], O[2][i]) /\ L[1][i] = L[2][i]

\* C1 restricted to calls whose K and V have the same strides
C1_OnSharedStrides == stride_k = stride_v => C1_NoCausalLeak

\* C2: forward: once an instance has finished, every row m < M of its tile
\* has summed exactly the keys n < N with (not causal or n <= P_SEQ + m),
\* each once, and its O and L have been stored once, by that instance.
C2_ForwardKeySet ==
  \A i \in DOMAIN fwd : fwd[i].pc = "done" =>
    \A m \in 0 .. M - 1 : m \div fwd_cfg.BLOCK_M = i =>
      /\ ExactlyOnce(attn[m], VisibleTerms(m))
      /\ stores["O"][m] = << <<"fwd", i>> >>
      /\ stores["L"][m] = << <<"fwd", i>> >>

\* C2 restricted to calls whose K and V have the same strides
C2_OnSharedStrides == stride_k = stride_v => C2_ForwardKeySet

\* C3: no kernel instance makes an unmasked load of a K/V row >= N, nor an
\* unmasked load or store of a Q/O/dO/L/Delta/dQ row >= M.
C3_BoundaryAccessInRange ==
  \A a \in oob :
    /\ ~(a.tensor \in {"K", "V"} /\ a.op = "load")
    /\ a.tensor \notin {"Q", "O", "dO", "L", "Delta", "dQ"}

\* C4: after backward, every row m < M of dQ has been stored exactly once,
\* by the instance of query tile m \div BLOCK_M, and no row >= M is stored.
C4_DqStoredOnce ==
  BqComplete =>
    /\ \A m \in 0 .. M - 1 :
         stores["dQ"][m] = << <<"bq", m \div bwd_cfg.BLOCK_M>> >>
    /\ \A a \in oob : a.tensor # "dQ"

\* C5: backward-q: a row of dQ that the kernel has accumulated and stored
\* has summed ds[m,n]*K[n] for exactly the keys n < N with
\* (not causal or n <= P_SEQ + m), the pairs the forward kernel left unmasked.
C5_DqKeySet ==
  \A i \in DOMAIN bq : bq[i].pc = "done" =>
    \A m \in DOMAIN bq[i].dq \cap (0 .. M - 1) :
      ExactlyOnce(dq_from[m], Visible(m))

\* C6: backward-kv: once an instance has finished, every key n < N of its
\* tile has dK[n] and dV[n] stored exactly once, by that instance, holding
\* the p / ds terms of exactly the rows m < M with
\* (not causal or n <= P_SEQ + m), each once; no row >= N is stored.
C6_DkvRowSet ==
  /\ \A j \in DOMAIN kv : kv[j].pc = "done" =>
       \A n \in 0 .. N - 1 : n \div bwd_cfg.BLOCK_N = j =>
         /\ stores["dK"][n] = << <<"kv", j>> >>
         /\ stores["dV"][n] = << <<"kv", j>> >>
         /\ ExactlyOnce(dkv_from[n].dk, Seen(n))
         /\ ExactlyOnce(dkv_from[n].dv, Seen(n))
  /\ \A a \in oob : a.tensor \notin {"dK", "dV"}

\* a finished causal KV kernel with a prefix, several key tiles, partial last
\* tiles in both directions, and a key tile whose sweep starts past row 0
C6_Witness ==
  /\ KvComplete /\ causal /\ P_SEQ > 0
  /\ N > bwd_cfg.BLOCK_N /\ N % bwd_cfg.BLOCK_N # 0
  /\ M > bwd_cfg.BLOCK_M /\ M % bwd_cfg.BLOCK_M # 0
  /\ \E j \in DOMAIN kv : KvLo(j) > 0
  /\ \A n \in 0 .. N - 1 : Len(dkv_from[n].dk) = Cardinality(Seen(n))

\* C7: in every key tile an instance is about to load, the lane of key n
\* points at offset b*stride_kz + h*stride_kh + n*stride_kn in K, and at the
\* offset computed from V's own strides in V.
C7_OwnStrides ==
  \A i \in DOMAIN fwd :
    (fwd[i].pc = "loop" /\ fwd[i].start_n < FwdHi(i)) =>
      \A c \in 0 .. fwd_cfg.BLOCK_N - 1 :
        LET n == fwd[i].start_n + c
        IN (n < N /\ n \in FwdMaskN(fwd[i].start_n)) =>
             /\ fwd[i].k_ptrs[c] = OffsetOf(stride_k, off_z, off_h, n)
             /\ fwd[i].v_ptrs[c] = OffsetOf(stride_v, off_z, off_h, n)

\* C8: a causal forward call with N < M is rejected before any launch: no
\* kernel is launched, no instance runs, neither O nor L is produced.
C8_NegativePrefixRejected ==
  (causal /\ N < M) =>
    /\ pc \in {"init", "rejected"}
    /\ stream = <<>> /\ fwd = <<>>
    /\ alloc = {}
    /\ \A m \in 0 .. M - 1 : stores["O"][m] = <<>> /\ stores["L"][m] = <<>>

\* C9: a forward call whose feature widths differ, or whose head dimension
\* is not 16, 32, 64 or 128, launches nothing, allocates nothing and saves
\* nothing in the autograd context.
C9_BadWidthsRejected ==
  ~(Dq = Dk /\ Dk = Dv /\ Dk \in {16, 32, 64, 128}) =>
    /\ pc \in {"init", "rejected"}
    /\ stream = <<>> /\ fwd = <<>>
    /\ alloc = {}
    /\ ~ctx_saved

\* a call rejected for its head dimension alone
C9_Witness ==
  pc = "rejected" /\ Dq = Dk /\ Dk = Dv /\ Dk \notin {16, 32, 64, 128}

\* C10: once a KV or Q instance has loaded Delta, every row m < M of Delta
\* has been stored, and stored once: none is written after the first read.
C10_DeltaBeforeUse ==
  delta_read => \A m \in 0 .. M - 1 : Len(stores["Delta"][m]) = 1

\* the Q kernel running after several preprocess instances and the KV kernel
C10_Witness ==
  /\ delta_read /\ Running("bq")
  /\ Cardinality(DOMAIN pre) > 1
  /\ \E i \in DOMAIN bq : bq[i].pc = "loop"

\* the tensors kernel k has stored to, and the ones it has loaded from
StoredBy(k) ==
  {t \in DOMAIN stores :
     \E r \in DOMAIN stores[t] : \E p \in DOMAIN stores[t][r] :
       stores[t][r][p][1] = k}
LoadedBy(k) == {a.tensor : a \in {x \in loads : x.kernel = k}}

\* two kernels whose instances may run at the same time: instances of one
\* launch, and the KV and Q launches
Concurrent(k1, k2) == k1 = k2 \/ {k1, k2} = {"kv", "bq"}

\* the unmasked loads whose address lies past the storage of their tensor;
\* what is allocated there is not fixed by the program, and may be a tensor
\* the instances of the same launch store to
PastStorage ==
  {a \in oob :
     /\ a.op = "load" /\ a.tensor \in {"K", "V"}
     /\ ElemAt(IF a.tensor = "K" THEN stride_k ELSE stride_v,
               OffsetOf(IF a.tensor = "K" THEN stride_k ELSE stride_v,
                        off_z, off_h, a.row)) = "outside"}

\* no element is stored twice by instances of one launch, and backward
\* stores to none of Q, K, V, dO, L
DisjointStores ==
  /\ \A t \in DOMAIN stores : \A r \in DOMAIN stores[t] :
       \A p, q \in DOMAIN stores[t][r] :
         p # q => ~Concurrent(stores[t][r][p][1], stores[t][r][q][1])
  /\ \A k \in {"pre", "kv", "bq"} :
       StoredBy(k) \cap {"Q", "K", "V", "dO", "L"} = {}

C11_InStorage ==
  /\ DisjointStores
  /\ \A k1, k2 \in {"fwd", "pre", "kv", "bq"} :
       Concurrent(k1, k2) => LoadedBy(k1) \cap StoredBy(k2) = {}

TuneKeys == {"BLOCK_M", "BLOCK_N", "num_stages", "num_warps"}

\* every one of the four locals is bound, to a positive number
AllBound(t) == DOMAIN t = TuneKeys /\ \A k \in TuneKeys : t[k] > 0

TileKeys(j) == KvOffsN(j) \cap (0 .. N - 1)
TileSees(t, j) ==
  \E m \in t .. t + bwd_cfg.BLOCK_M - 1 :
    m < M /\ \E n \in TileKeys(j) : n <= P_SEQ + m

\* C13: backward-kv, causal, P_SEQ >= 0: lo is the start of the earliest
\* query tile with a row m < M visible to a key of the tile; every row
\* m < lo is hidden from every key of the tile; lo < M, and the sweep starts
\* at lo and makes at least one iteration.
C13_KvLowerBound ==
  (causal /\ P_SEQ >= 0) =>
    \A j \in DOMAIN kv :
      /\ KvLo(j) % bwd_cfg.BLOCK_M = 0
      /\ TileSees(KvLo(j), j)
      /\ \A m \in 0 .. KvLo(j) - 1 : \A n \in TileKeys(j) : ~(n <= P_SEQ + m)
      /\ KvLo(j) < M
      /\ kv[j].pc = "loop" => kv[j].start_m >= KvLo(j)
      /\ kv[j].pc = "done" => kv[j].start_m > KvLo(j)

\* a finished instance whose sweep started past the first query tile, at a
\* tile the first visible row is not the first row of
C13_Witness ==
  /\ causal /\ P_SEQ > 0
  /\ \E j \in DOMAIN kv :
       /\ kv[j].pc = "done"
       /\ KvLo(j) > 0
       /\ (j * bwd_cfg.BLOCK_N - P_SEQ) % bwd_cfg.BLOCK_M # 0

\* the keys row m may attend to in the tiles before start_n, its logit
\* against key n in run r, and the maximum and the sum of exp2(logit - mx)
\* over those keys
VisitedKeys(m, start_n) == {n \in Visible(m) : n < start_n}
Logit(r, m, n) == Fin(Q[m] * K[r][off_h][n])
VisitedMax(r, m, start_n) ==
  MaxOver([n \in 0 .. N - 1 |->
             IF n \in VisitedKeys(m, start_n) THEN Logit(r, m, n) ELSE NINF], N)
VisitedSum(r, m, start_n, mx) ==
  FxSum([n \in 0 .. N - 1 |->
           IF n \in VisitedKeys(m, start_n)
           THEN Exp2(Sub(Logit(r, m, n), mx)) ELSE Fin(0)], N)

\* a <= b for values that are finite or -inf
Leq(a, b) == a = NINF \/ (b # NINF /\ a[2] <= b[2])

\* after every key tile, m_i is the maximum logit of the visible keys
\* visited so far and l_i sums exp2(logit - m_i) over exactly those keys
RunningMaxExact ==
  \A i \in DOMAIN fwd : fwd[i].pc \in {"loop", "done"} =>
    \A m \in DOMAIN fwd[i].rows \cap (0 .. M - 1) : \A r \in 1 .. 2 :
      LET row == fwd[i].rows[m]
          sn == fwd[i].start_n
      IN /\ row.m_i[r] = VisitedMax(r, m, sn)
         /\ VisitedKeys(m, sn) # {} =>
              row.l_i[r] = VisitedSum(r, m, sn, row.m_i[r])

\* m_i of a row does not decrease in a step
RunningMaxGrows ==
  \A i \in DOMAIN fwd : \A r \in 1 .. 2 :
    \A m \in DOMAIN fwd[i].rows \cap DOMAIN fwd'[i].rows :
      Leq(fwd[i].rows[m].m_i[r], fwd'[i].rows[m].m_i[r])

\* C14: forward: for every query row m < M, after each key tile the running
\* max is the maximum logit over the unmasked keys of the tiles visited so
\* far, it never decreases, and the lanes of masked keys (n >= N, or
\* causally hidden) add nothing to the running max or the running sum.
C14_RunningMax == [](RunningMaxExact) /\ [][RunningMaxGrows]_vars

\* C14 restricted to calls whose K and V have the same strides
C14_OnSharedStrides ==
  [](stride_k = stride_v => RunningMaxExact) /\ [][RunningMaxGrows]_vars

\* C15: forward, P_SEQ >= 0: the first key tile holds an unmasked key for
\* every row m < M; from the end of the first iteration on the running max of
\* the row is finite and its running sum holds the term of at least one key
\* (so no (-inf) - (-inf) has been evaluated), and the row is finalized after
\* at least one iteration, with a finite L and O = acc / l_i, l_i > 0.
C15_NormalizerDefined ==
  P_SEQ >= 0 =>
    \A i \in DOMAIN fwd : fwd[i].pc \in {"loop", "done"} =>
      \A m \in DOMAIN fwd[i].rows \cap (0 .. M - 1) : \A r \in 1 .. 2 :
        LET row == fwd[i].rows[m]
        IN /\ \E c \in 0 .. fwd_cfg.BLOCK_N - 1 : FwdLive(m, c, 0)
           /\ fwd[i].start_n > 0 =>
                /\ IsFin(row.m_i[r])
                /\ IsFin(row.l_i[r]) /\ row.l_i[r][2] >= One
           /\ fwd[i].pc = "done" =>
                /\ fwd[i].start_n > 0
                /\ IsFin(L[r][m])
                /\ O[r][m][1] = "frac" /\ O[r][m][3] > 0

\* a finished causal forward without prefix over several key tiles, the last
\* one partial: row 0 has one visible key, and a finite L
C15_Witness ==
  /\ FwdComplete /\ causal /\ P_SEQ = 0
  /\ N > fwd_cfg.BLOCK_N /\ N % fwd_cfg.BLOCK_N # 0
  /\ Cardinality(Visible(0)) = 1
  /\ IsFin(L[1][0])

\* C16: whenever forward or backward has been left, by its return or by a
\* failed assertion, the current CUDA device is the one that was current
\* when the call began.
C16_DeviceRestored ==
  pc \in {"rejected", "fwd_returned", "bwd_returned"} =>
    current_device = entry_device

\* C16 on the normal returns alone
C16_OnReturn ==
  pc \in {"fwd_returned", "bwd_returned"} => current_device = entry_device

====
